---- MODULE Spec2Model ----
(***************************************************************************)
(* The user resource handlers of controllers/userController.ts and the     *)
(* users collection they call.                                             *)
(*                                                                         *)
(* A handler runs without interruption except at an `await` of a store     *)
(* call.  The code before and after an await touches only the handler's    *)
(* own req/res/next, so a handler with one store call is one atomic step   *)
(* taken at the moment the store executes the call.  updateUserById has    *)
(* two store calls and is two steps; any other request can run in between. *)
(* The model keeps at most one updateUserById between its two store calls. *)
(***************************************************************************)
EXTENDS Integers, Sequences, FiniteSets, TLC

\* Bounds of the model.
MaxIds == 2         \* ids the store hands out before createUser is disabled
MaxRace == 3        \* delete requests in flight together in SpecRace

NameStrs == {"a", "b"}
Errors == {"Database error"}

(***************************************************************************)
(* JavaScript values of req.body.name and req.query.name.  A value is its  *)
(* type and its string form (what String(v) yields).                       *)
(***************************************************************************)
Undefined == [t |-> "undefined", s |-> "undefined"]
Null == [t |-> "null", s |-> "null"]
Str(x) == [t |-> "string", s |-> x]
Arr(x) == [t |-> "array", s |-> x]      \* the one-element array [x]; String([x]) = x

\* JSON bodies: {}, {name: ""}, {name: "a"}, ...
BodyNames == {Undefined, Str("")} \cup {Str(x) : x \in NameStrs}
\* query strings: none, ?name[]=a, ?name=a, ...
QueryNames == {Undefined, Arr("a")} \cup {Str(x) : x \in NameStrs}

\* mutant: only a missing name is refused (name == null), "" passes
FalsyNullish(v) == v.t \in {"undefined", "null"}

\* `!name`
Falsy(v) == \/ v.t \in {"undefined", "null"}
            \/ v.t = "string" /\ v.s = ""

\* `String(name)`
String(v) == Str(v.s)

\* `typeof name`
Typeof(v) == IF v.t \in {"null", "array"} THEN "object" ELSE v.t

\* what the driver writes for a field value: undefined is serialized as null
ToBSON(v) == IF v = Undefined THEN Null ELSE v

(***************************************************************************)
(* Path parameters :id.  A 24-digit hex string names the ObjectId n; any   *)
(* other string ("invalid-id") names none.                                 *)
(***************************************************************************)
NoId == [kind |-> "none", n |-> 0]
InvalidId == [kind |-> "other", n |-> 0]
HexId(n) == [kind |-> "hex24", n |-> n]
PathIds == {InvalidId} \cup {HexId(n) : n \in 1..MaxIds}

\* mutant: any string passes the check
ObjectId_isValidLax(id) == id.kind # "none"

ObjectId_isValid(id) == id.kind = "hex24"
NewObjectId(id) == id.n

(***************************************************************************)
(* The users collection: documents in insertion order.                     *)
(***************************************************************************)
NoDoc == [_id |-> 0, name |-> Undefined]
Doc(id, name) == [_id |-> id, name |-> name]

ByName(v) == [field |-> "name", value |-> v]
ById(oid) == [field |-> "_id", value |-> Doc(oid, Undefined)]

Matches(doc, f) == IF f.field = "_id" THEN doc._id = f.value._id
                   ELSE doc.name = f.value

MatchIdxs(s, f) == {i \in DOMAIN s : Matches(s[i], f)}

FirstIdx(s, f) == CHOOSE i \in MatchIdxs(s, f) : \A j \in MatchIdxs(s, f) : i <= j

RemoveAt(s, i) == [j \in 1..(Len(s) - 1) |-> IF j < i THEN s[j] ELSE s[j + 1]]

InsertOne(s, id, name) == Append(s, Doc(id, name))

\* mutant: the filter is not applied
FindOneAny(s, f) == IF s = <<>> THEN NoDoc ELSE s[1]

FindOne(s, f) == IF MatchIdxs(s, f) = {} THEN NoDoc ELSE s[FirstIdx(s, f)]

\* mutant: updateMany in place of updateOne
UpdateMany(s, f, name) ==
  [store |-> [i \in DOMAIN s |-> IF Matches(s[i], f) THEN [s[i] EXCEPT !.name = name]
                                                      ELSE s[i]],
   matchedCount |-> Cardinality(MatchIdxs(s, f)),
   modifiedCount |-> Cardinality({i \in MatchIdxs(s, f) : s[i].name # name})]

\* mutant: upsert, a document is inserted when none matches
UpdateOneUpsert(s, f, name) ==
  IF MatchIdxs(s, f) = {}
  THEN [store |-> Append(s, Doc(0, name)), matchedCount |-> 0, modifiedCount |-> 0]
  ELSE LET i == FirstIdx(s, f)
       IN [store |-> [s EXCEPT ![i].name = name],
           matchedCount |-> 1,
           modifiedCount |-> IF s[i].name = name THEN 0 ELSE 1]

UpdateOne(s, f, name) ==
  IF MatchIdxs(s, f) = {}
  THEN [store |-> s, matchedCount |-> 0, modifiedCount |-> 0]
  ELSE LET i == FirstIdx(s, f)
       IN [store |-> [s EXCEPT ![i].name = name],
           matchedCount |-> 1,
           modifiedCount |-> IF s[i].name = name THEN 0 ELSE 1]

\* mutant: upsert, a document is inserted when none matches
FindOneAndUpsert(s, f, name) ==
  IF MatchIdxs(s, f) = {}
  THEN [store |-> Append(s, Doc(f.value._id, name)), value |-> Doc(f.value._id, name)]
  ELSE LET i == FirstIdx(s, f)
           t == [s EXCEPT ![i].name = name]
       IN [store |-> t, value |-> t[i]]

FindOneAndUpdate(s, f, name) ==
  IF MatchIdxs(s, f) = {}
  THEN [store |-> s, value |-> NoDoc]
  ELSE LET i == FirstIdx(s, f)
           t == [s EXCEPT ![i].name = name]
       IN [store |-> t, value |-> t[i]]

\* mutant: the document is found and returned but not removed
FindOneAndDeleteKeeps(s, f) == [store |-> s, value |-> FindOne(s, f)]

FindOneAndDelete(s, f) ==
  IF MatchIdxs(s, f) = {}
  THEN [store |-> s, value |-> NoDoc]
  ELSE LET i == FirstIdx(s, f)
       IN [store |-> RemoveAt(s, i), value |-> s[i]]

\* mutant: a soft delete, the match is counted but stays in the collection
DeleteOneSoft(s, f) ==
  [store |-> s, deletedCount |-> IF MatchIdxs(s, f) = {} THEN 0 ELSE 1]

\* mutant: the filter is not applied, the first document goes
DeleteOneNoFilter(s, f) ==
  IF s = <<>>
  THEN [store |-> s, deletedCount |-> 0]
  ELSE [store |-> Tail(s), deletedCount |-> 1]

\* mutant: deleteMany in place of deleteOne
DeleteMany(s, f) ==
  [store |-> SelectSeq(s, LAMBDA d : ~Matches(d, f)),
   deletedCount |-> Cardinality(MatchIdxs(s, f))]

DeleteOne(s, f) ==
  IF MatchIdxs(s, f) = {}
  THEN [store |-> s, deletedCount |-> 0]
  ELSE [store |-> RemoveAt(s, FirstIdx(s, f)), deletedCount |-> 1]

Ids(s) == {s[i]._id : i \in DOMAIN s}

(***************************************************************************)
(* Responses.                                                              *)
(***************************************************************************)
Json(status, message, user) == [status |-> status, message |-> message, user |-> user]

NoErr == "none"

\* the locals of an updateUserById that is waiting for its second store call
Req(id, name) == [id |-> id, name |-> name]
NoReq == Req(NoId, Undefined)

VARIABLES
  store,      \* the users collection
  nextId,     \* the next ObjectId the driver generates
  pending,    \* the updateUserById request between findOne and findOneAndUpdate, if any
  out,        \* the handler step taken last: its request and what it did to res/next
  scen,       \* history: how far a back-to-back sequence of requests has come
  inflight    \* SpecRace: the delete requests, each at its await or answered

vars == <<store, nextId, pending, out, scen, inflight>>

\* what one handler did: responses sent with res, errors passed to next, store calls issued
Out(h, id, q, b, calls, res, nexts, thrown, phase) ==
  [h |-> h, id |-> id, q |-> q, b |-> b, calls |-> calls, res |-> res,
   nexts |-> nexts, thrown |-> thrown, phase |-> phase]

Statuses(o) == [i \in DOMAIN o.res |-> o.res[i].status]

(***************************************************************************)
(* History variables.  scen follows requests that run back to back, with   *)
(* no other handler step in between and every store call completing:       *)
(* stage 1 after createUser(n) answered 201, stage 2 after a following     *)
(* getUserByName(n), stage 3 after a following deleteUserByName(n), stage  *)
(* 4 after a second getUserByName(n).  fresh: no document was named n      *)
(* before the create.  Stage 5 after deleteUserById(id) answered 200,      *)
(* stage 6 after a following deleteUserById(id).  Stage 7 is set by        *)
(* SpecRace alone: id and n are the document the racing deletes aim at.    *)
(***************************************************************************)
NoScen == [stage |-> 0, n |-> "", id |-> 0, fresh |-> FALSE]

ScenNext(s, sc, o) ==
  IF o.h = "createUser" /\ Statuses(o) = <<201>>
  THEN [stage |-> 1, n |-> o.b.s, id |-> o.res[1].user._id,
        fresh |-> MatchIdxs(s, ByName(o.b)) = {}]
  ELSE IF /\ sc.stage \in {1, 3}
          /\ o.h = "getUserByName" /\ o.q = Str(sc.n) /\ o.thrown = NoErr
       THEN [sc EXCEPT !.stage = @ + 1]
  ELSE IF /\ sc.stage = 2
          /\ o.h = "deleteUserByName" /\ o.q = Str(sc.n) /\ o.thrown = NoErr
       THEN [sc EXCEPT !.stage = 3]
  ELSE IF /\ sc.stage = 5
          /\ o.h = "deleteUserById" /\ o.id = HexId(sc.id) /\ o.thrown = NoErr
       THEN [sc EXCEPT !.stage = 6]
  ELSE IF o.h = "deleteUserById" /\ Statuses(o) = <<200>>
       THEN [stage |-> 5, n |-> "", id |-> o.res[1].user._id, fresh |-> FALSE]
  ELSE NoScen

Observe ==
  /\ scen' = ScenNext(store, scen, out')
  /\ UNCHANGED inflight

Init ==
  /\ store = <<>>
  /\ nextId = 1
  /\ pending = NoReq
  /\ out = Out("none", NoId, Undefined, Undefined, <<>>, <<>>, <<>>, NoErr, "done")
  /\ scen = NoScen
  /\ inflight = <<>>

\* mutant: the catch block answers 500 itself and also calls next
CatchResponds(h, id, q, b, calls, e) ==
  Out(h, id, q, b, calls, <<Json(500, e, NoDoc)>>, <<e>>, e, "done")

\* the catch block shared by all handlers: next(error)
Catch(h, id, q, b, calls, e) ==
  Out(h, id, q, b, calls, <<>>, <<e>>, e, "done")

createUser ==
  /\ \E name \in BodyNames :
       IF Falsy(name)
       THEN /\ out' = Out("createUser", NoId, Undefined, name, <<>>,
                          <<Json(400, "Name is required", NoDoc)>>, <<>>, NoErr, "done")
            /\ UNCHANGED <<store, nextId, pending>>
       ELSE /\ nextId <= MaxIds
            /\ \/ \E e \in Errors :
                    /\ out' = Catch("createUser", NoId, Undefined, name, <<"insertOne">>, e)
                    /\ UNCHANGED <<store, nextId, pending>>
               \/ \E applied \in BOOLEAN :
                    \* result.acknowledged is false: the write was sent unacknowledged
                    /\ out' = Out("createUser", NoId, Undefined, name, <<"insertOne">>,
                                  <<Json(500, "Failed to create user", NoDoc)>>, <<>>,
                                  NoErr, "done")
                    /\ store' = IF applied THEN InsertOne(store, nextId, name) ELSE store
                    /\ nextId' = nextId + 1
                    /\ UNCHANGED pending
               \/ /\ out' = Out("createUser", NoId, Undefined, name, <<"insertOne">>,
                                <<Json(201, "User created successfully", Doc(nextId, name))>>,
                                <<>>, NoErr, "done")
                  /\ store' = InsertOne(store, nextId, name)
                  /\ nextId' = nextId + 1
                  /\ UNCHANGED pending
  /\ Observe

getUserByName ==
  /\ \E name \in QueryNames :
       /\ UNCHANGED <<store, nextId, pending>>
       /\ IF Falsy(name)
          THEN out' = Out("getUserByName", NoId, name, Undefined, <<>>,
                          <<Json(400, "Name is required", NoDoc)>>, <<>>, NoErr, "done")
          ELSE \/ \E e \in Errors :
                    out' = Catch("getUserByName", NoId, name, Undefined, <<"findOne">>, e)
               \/ LET user == FindOne(store, ByName(String(name)))
                  IN out' = Out("getUserByName", NoId, name, Undefined, <<"findOne">>,
                                IF user = NoDoc
                                THEN <<Json(404, "User not found", NoDoc)>>
                                ELSE <<Json(200, "", user)>>,
                                <<>>, NoErr, "done")
  /\ Observe

getUserById ==
  /\ \E id \in PathIds :
       /\ UNCHANGED <<store, nextId, pending>>
       /\ IF ~ObjectId_isValid(id)
          THEN out' = Out("getUserById", id, Undefined, Undefined, <<>>,
                          <<Json(400, "Invalid user ID", NoDoc)>>, <<>>, NoErr, "done")
          ELSE \/ \E e \in Errors :
                    out' = Catch("getUserById", id, Undefined, Undefined, <<"findOne">>, e)
               \/ LET user == FindOne(store, ById(NewObjectId(id)))
                  IN out' = Out("getUserById", id, Undefined, Undefined, <<"findOne">>,
                                IF user = NoDoc
                                THEN <<Json(404, "User not found", NoDoc)>>
                                ELSE <<Json(200, "", user)>>,
                                <<>>, NoErr, "done")
  /\ Observe

\* res.status(200).json(...) reached after the 404 was sent (no return at line 119):
\* Express throws ERR_HTTP_HEADERS_SENT, which the catch block passes to next;
\* a res that only records (the tests' jest.fn) takes the second response.
SendAfter404(resThrows) ==
  IF resThrows
  THEN [res |-> <<Json(404, "User not found", NoDoc)>>,
        nexts |-> <<"ERR_HTTP_HEADERS_SENT">>]
  ELSE [res |-> <<Json(404, "User not found", NoDoc),
                  Json(200, "User updated successfully", NoDoc)>>,
        nexts |-> <<>>]

updateUserByName ==
  /\ \E oldName \in QueryNames, newName \in BodyNames :
       /\ UNCHANGED <<nextId, pending>>
       /\ IF Falsy(oldName) \/ Falsy(newName)
          THEN /\ out' = Out("updateUserByName", NoId, oldName, newName, <<>>,
                             <<Json(400, "Both old name (query) and new name (body) are required",
                                    NoDoc)>>, <<>>, NoErr, "done")
               /\ UNCHANGED store
          ELSE \/ \E e \in Errors :
                    /\ out' = Catch("updateUserByName", NoId, oldName, newName,
                                    <<"updateOne">>, e)
                    /\ UNCHANGED store
               \/ LET result == UpdateOne(store, ByName(String(oldName)), ToBSON(newName))
                  IN /\ store' = result.store
                     /\ IF result.matchedCount = 0
                        THEN \E resThrows \in BOOLEAN :
                               out' = Out("updateUserByName", NoId, oldName, newName,
                                          <<"updateOne">>, SendAfter404(resThrows).res,
                                          SendAfter404(resThrows).nexts, NoErr, "done")
                        ELSE out' = Out("updateUserByName", NoId, oldName, newName,
                                        <<"updateOne">>,
                                        <<Json(200, "User updated successfully", NoDoc)>>,
                                        <<>>, NoErr, "done")
  /\ Observe

\* updateUserById up to its second await: validation, findOne, existence check
updateUserById ==
  /\ \E id \in PathIds, name \in BodyNames :
       /\ UNCHANGED <<store, nextId>>
       /\ IF ~ObjectId_isValid(id)
          THEN /\ out' = Out("updateUserById", id, Undefined, name, <<>>,
                             <<Json(400, "Invalid user ID", NoDoc)>>, <<>>, NoErr, "done")
               /\ UNCHANGED pending
          ELSE \/ \E e \in Errors :
                    /\ out' = Catch("updateUserById", id, Undefined, name, <<"findOne">>, e)
                    /\ UNCHANGED pending
               \/ LET existingUser == FindOne(store, ById(NewObjectId(id)))
                  IN IF existingUser = NoDoc
                     THEN /\ out' = Out("updateUserById", id, Undefined, name, <<"findOne">>,
                                        <<Json(404, "User not found", NoDoc)>>, <<>>,
                                        NoErr, "done")
                          /\ UNCHANGED pending
                     ELSE /\ pending = NoReq
                          /\ pending' = Req(id, name)
                          /\ out' = Out("updateUserById", id, Undefined, name, <<"findOne">>,
                                        <<>>, <<>>, NoErr, "await")
  /\ Observe

\* updateUserById from its second await on: findOneAndUpdate and the response
updateUserByIdUpdate ==
  /\ pending # NoReq
  /\ LET id == pending.id
         name == pending.name
    IN /\ pending' = NoReq
       /\ UNCHANGED nextId
       /\ \/ \E e \in Errors :
               /\ out' = Catch("updateUserById", id, Undefined, name,
                               <<"findOne", "findOneAndUpdate">>, e)
               /\ UNCHANGED store
          \/ LET result == FindOneAndUpdate(store, ById(NewObjectId(id)), ToBSON(name))
             IN /\ store' = result.store
                /\ out' = Out("updateUserById", id, Undefined, name,
                              <<"findOne", "findOneAndUpdate">>,
                              IF result.value = NoDoc
                              THEN <<Json(404, "User not found", NoDoc)>>
                              ELSE <<Json(200, "User updated successfully", result.value)>>,
                              <<>>, NoErr, "done")
  /\ Observe

deleteUserById ==
  /\ \E id \in PathIds :
       /\ UNCHANGED <<nextId, pending>>
       /\ IF ~ObjectId_isValid(id)
          THEN /\ out' = Out("deleteUserById", id, Undefined, Undefined, <<>>,
                             <<Json(400, "Invalid user ID", NoDoc)>>, <<>>, NoErr, "done")
               /\ UNCHANGED store
          ELSE \/ \E e \in Errors :
                    /\ out' = Catch("deleteUserById", id, Undefined, Undefined,
                                    <<"findOneAndDelete">>, e)
                    /\ UNCHANGED store
               \/ LET deleteResult == FindOneAndDelete(store, ById(NewObjectId(id)))
                  IN /\ store' = deleteResult.store
                     /\ out' = Out("deleteUserById", id, Undefined, Undefined,
                                   <<"findOneAndDelete">>,
                                   IF deleteResult.value = NoDoc
                                   THEN <<Json(404, "User not found", NoDoc)>>
                                   ELSE <<Json(200, "User deleted successfully",
                                               deleteResult.value)>>,
                                   <<>>, NoErr, "done")
  /\ Observe

deleteUserByName ==
  /\ \E name \in QueryNames :
       /\ UNCHANGED <<nextId, pending>>
       /\ IF Falsy(name) \/ Typeof(name) # "string"
          THEN /\ out' = Out("deleteUserByName", NoId, name, Undefined, <<>>,
                             <<Json(400, "Name query parameter is required", NoDoc)>>,
                             <<>>, NoErr, "done")
               /\ UNCHANGED store
          ELSE \/ \E e \in Errors :
                    /\ out' = Catch("deleteUserByName", NoId, name, Undefined,
                                    <<"deleteOne">>, e)
                    /\ UNCHANGED store
               \/ LET result == DeleteOne(store, ByName(name))
                  IN /\ store' = result.store
                     /\ out' = Out("deleteUserByName", NoId, name, Undefined, <<"deleteOne">>,
                                   IF result.deletedCount = 0
                                   THEN <<Json(404, "User not found", NoDoc)>>
                                   ELSE <<Json(200, "User deleted successfully", NoDoc)>>,
                                   <<>>, NoErr, "done")
  /\ Observe

Next ==
  \/ createUser
  \/ getUserByName
  \/ getUserById
  \/ updateUserByName
  \/ updateUserById
  \/ updateUserByIdUpdate
  \/ deleteUserById
  \/ deleteUserByName

Spec == Init /\ [][Next]_vars

(***************************************************************************)
(* Properties.  A step is the step of handler h exactly when out'.h = h:   *)
(* every action writes out.                                                *)
(***************************************************************************)
NotFound == Json(404, "User not found", NoDoc)
InvalidUserId == Json(400, "Invalid user ID", NoDoc)

\* the handler finished and its store calls, if any, completed without an exception
Completed(o, h) == o.h = h /\ o.phase = "done" /\ o.thrown = NoErr

\* C1: every finished invocation has produced exactly one response: one
\* status/body sent, or one forward to the error handler, never both or two.
C1_ExactlyOneResponse ==
  (out.h # "none" /\ out.phase = "done") => Len(out.res) + Len(out.nexts) = 1

\* C2: updateUserByName with both names present, run when no document is named
\* oldName, ends with the single response 404 "User not found" and leaves the
\* store unchanged.
C2_UpdateByNameNotFound ==
  [][(/\ Completed(out', "updateUserByName")
      /\ ~Falsy(out'.q) /\ ~Falsy(out'.b)
      /\ MatchIdxs(store, ByName(String(out'.q))) = {})
     => (out'.res = <<NotFound>> /\ out'.nexts = <<>> /\ store' = store)]_vars

\* C3: a createUser(n) answered 201 and directly followed by getUserByName(n)
\* gets 200 with a document whose name is n, whatever the store held before.
C3_CreateThenFindByName ==
  scen.stage = 2 =>
    /\ Statuses(out) = <<200>>
    /\ out.nexts = <<>>
    /\ out.res[1].user.name = Str(scen.n)

C3_Witness == scen.stage = 2 /\ ~scen.fresh /\ Len(store) >= 2

\* C4: from a store with no document named n, createUser(n), getUserByName(n),
\* deleteUserByName(n), getUserByName(n) run back to back answer 201 with a
\* generated id, 200 with a document of that id, 200, and 404 "User not found".
C4_CreateFindDeleteFind ==
  scen.fresh =>
    /\ scen.stage = 1 => /\ Statuses(out) = <<201>>
                         /\ out.res[1].user = Doc(scen.id, Str(scen.n))
                         /\ scen.id = nextId - 1
    /\ scen.stage = 2 => /\ Statuses(out) = <<200>>
                         /\ out.res[1].user._id = scen.id
    /\ scen.stage = 3 => Statuses(out) = <<200>>
    /\ scen.stage = 4 => out.res = <<NotFound>>
    /\ scen.stage \in 1..4 => out.nexts = <<>>

C4_Witness == scen.fresh /\ scen.stage = 4 /\ store # <<>>

\* C5: every document in the store has an id and a present (not absent, not
\* null) name.
C5_EveryRecordHasName ==
  \A i \in DOMAIN store :
    /\ store[i]._id \in 1..MaxIds
    /\ store[i].name.t \notin {"undefined", "null"}

\* C6: deleteUserByName(n) with a non-empty string n removes exactly one
\* document and answers 200 when some document is named n (also when several
\* are), and changes nothing and answers 404 "User not found" when none is.
C6_DeleteByNameCount ==
  [][(/\ Completed(out', "deleteUserByName")
      /\ ~Falsy(out'.q) /\ Typeof(out'.q) = "string")
     => /\ out'.nexts = <<>>
        /\ IF MatchIdxs(store, ByName(out'.q)) # {}
           THEN /\ Len(store') = Len(store) - 1
                /\ Statuses(out') = <<200>>
           ELSE /\ store' = store
                /\ out'.res = <<NotFound>>]_vars

C6_Witness ==
  /\ Completed(out, "deleteUserByName")
  /\ Statuses(out) = <<200>>
  /\ MatchIdxs(store, ByName(out.q)) # {}

\* C7: updateUserByName(oldName, newName) run when some document is named
\* oldName sets the name of exactly one such document to newName, keeps its id,
\* leaves every other document as it was, and answers 200 with a message only.
C7_UpdateByNameOne ==
  [][(/\ Completed(out', "updateUserByName")
      /\ ~Falsy(out'.q) /\ ~Falsy(out'.b)
      /\ MatchIdxs(store, ByName(String(out'.q))) # {})
     => /\ out'.res = <<Json(200, "User updated successfully", NoDoc)>>
        /\ out'.nexts = <<>>
        /\ Len(store') = Len(store)
        /\ \E i \in DOMAIN store :
             /\ store[i].name = String(out'.q)
             /\ store'[i] = Doc(store[i]._id, out'.b)
             /\ \A j \in DOMAIN store \ {i} : store'[j] = store[j]]_vars

C7_Witness ==
  /\ Completed(out, "updateUserByName")
  /\ Statuses(out) = <<200>>
  /\ out.b # String(out.q)
  /\ MatchIdxs(store, ByName(String(out.q))) # {}
  /\ MatchIdxs(store, ByName(out.b)) # {}

C9_DeleteById ==
  [][/\ (Completed(out', "deleteUserById") /\ ObjectId_isValid(out'.id))
        => IF NewObjectId(out'.id) \in Ids(store)
           THEN /\ Statuses(out') = <<200>>
                /\ out'.res[1].user \in {store[i] : i \in DOMAIN store}
                /\ out'.res[1].user._id = NewObjectId(out'.id)
                /\ NewObjectId(out'.id) \notin Ids(store')
                /\ Len(store') = Len(store) - 1
           ELSE /\ out'.res = <<NotFound>>
                /\ store' = store
     /\ \A i \in 1..(nextId - 1) : i \notin Ids(store) => i \notin Ids(store')
     /\ scen'.stage = 6 => out'.res = <<NotFound>>]_vars

C9_Witness == scen.stage = 6 /\ store # <<>>

\* C10: when a store call throws, the handler passes that error to next exactly
\* once, sends no response and issues no store call again; also for each of the
\* two store calls of updateUserById.
C10_StoreErrorForwarded ==
  out.thrown # NoErr =>
    /\ out.nexts = <<out.thrown>>
    /\ out.res = <<>>
    /\ out.phase = "done"
    /\ out.calls # <<>>
    /\ \A i, j \in DOMAIN out.calls : i # j => out.calls[i] # out.calls[j]

C10_Witness ==
  /\ out.h = "updateUserById"
  /\ out.thrown # NoErr
  /\ out.calls = <<"findOne", "findOneAndUpdate">>

\* an absent or empty name
NoName(v) == v \in {Undefined, Null, Str("")}

\* createUser refused the request: 400 "Name is required", no insert, nothing changed
CreateRefused ==
  /\ out'.res = <<Json(400, "Name is required", NoDoc)>>
  /\ out'.nexts = <<>>
  /\ out'.calls = <<>>
  /\ store' = store
  /\ nextId' = nextId

\* createUser inserted exactly one document, with the given name and an id no
\* document has, and answered 201 with that id and name
CreateInserted ==
  /\ out'.res = <<Json(201, "User created successfully", Doc(nextId, out'.b))>>
  /\ out'.nexts = <<>>
  /\ nextId \notin Ids(store)
  /\ store' = Append(store, Doc(nextId, out'.b))

\* C11 as stated: createUser with an absent or empty name answers 400 "Name is
\* required" and inserts nothing; with a non-empty name it inserts exactly one
\* document with a fresh id and answers 201 with that id and name.
C11_CreateAsStated ==
  [][Completed(out', "createUser")
     => IF NoName(out'.b) THEN CreateRefused ELSE CreateInserted]_vars

\* C11 amended: as stated when the store acknowledges the insert; an insert
\* the store does not acknowledge is answered 500 "Failed to create user".
C11_Create ==
  [][Completed(out', "createUser")
     => IF NoName(out'.b)
        THEN CreateRefused
        ELSE \/ CreateInserted
             \/ /\ out'.res = <<Json(500, "Failed to create user", NoDoc)>>
                /\ out'.nexts = <<>>
                /\ out'.calls = <<"insertOne">>]_vars

C11_Witness ==
  /\ Completed(out, "createUser")
  /\ Statuses(out) = <<201>>
  /\ Len(store) = 2
  /\ store[2] = out.res[1].user

\* the name a document gets from newName: newName itself, null when the body has none
Written(v) == IF v = Undefined THEN Null ELSE v

\* C12: updateUserById(id, newName) with a valid id, whatever runs between its
\* existence check and its update: it answers 404 when no document has the id
\* at the check, or none has it any more at the update; otherwise it answers
\* 200 with the document of that id carrying newName.  It never adds a
\* document and never answers 200 for an id absent when the update is applied.
C12_UpdateById ==
  [][(out'.h = "updateUserById" /\ out'.id # InvalidId /\ out'.thrown = NoErr)
     => LET oid == out'.id.n
        IN /\ Ids(store') = Ids(store)
           /\ Len(store') = Len(store)
           /\ IF out'.calls = <<"findOne">>
              THEN \* the existence check
                   /\ store' = store
                   /\ IF oid \in Ids(store)
                      THEN out'.phase = "await" /\ out'.res = <<>> /\ out'.nexts = <<>>
                      ELSE out'.phase = "done" /\ out'.res = <<NotFound>>
                           /\ out'.nexts = <<>>
              ELSE \* the update
                   /\ out'.calls = <<"findOne", "findOneAndUpdate">>
                   /\ out'.phase = "done" /\ out'.nexts = <<>>
                   /\ IF oid \in Ids(store)
                      THEN /\ out'.res = <<Json(200, "User updated successfully",
                                                Doc(oid, Written(out'.b)))>>
                           /\ \A i \in DOMAIN store :
                                store'[i] = IF store[i]._id = oid
                                            THEN Doc(oid, Written(out'.b))
                                            ELSE store[i]
                      ELSE /\ out'.res = <<NotFound>>
                           /\ store' = store]_vars

\* the document was there at the check and gone at the update
C12_Witness ==
  /\ out.h = "updateUserById"
  /\ out.calls = <<"findOne", "findOneAndUpdate">>
  /\ out.res = <<NotFound>>
  /\ out.id.n \notin Ids(store)
  /\ store # <<>>

(***************************************************************************)
(* Concurrent deletes.  SpecRace shows deleteUserById and deleteUserByName *)
(* in the two parts an await splits them into: the request is received and *)
(* the store call issued; later the store executes the call and the        *)
(* handler answers.  Up to MaxRace requests are in flight together, all    *)
(* aimed (by id or by name) at one document whose name no other document   *)
(* has.  It starts from any store the handlers can produce: documents in   *)
(* the order of their ids, a name a string or null.                        *)
(***************************************************************************)
StoredNames == {Null, Str("")} \cup {Str(x) : x \in NameStrs}

Kth(S, i) == CHOOSE x \in S : Cardinality({y \in S : y < x}) = i - 1

RaceStores ==
  UNION {{[i \in 1..Cardinality(S) |-> Doc(Kth(S, i), f[Kth(S, i)])] :
            f \in [S -> StoredNames]} : S \in SUBSET (1..MaxIds)}

Target(id, n) == [stage |-> 7, n |-> n, id |-> id, fresh |-> FALSE]

Flight(h, id, q, res, nexts, phase) ==
  [h |-> h, id |-> id, q |-> q, res |-> res, nexts |-> nexts, phase |-> phase]

InitRace ==
  /\ store \in RaceStores
  /\ nextId = MaxIds + 1
  /\ pending = NoReq
  /\ out = Out("none", NoId, Undefined, Undefined, <<>>, <<>>, <<>>, NoErr, "done")
  /\ inflight = <<>>
  /\ \E k \in DOMAIN store :
       /\ store[k].name.t = "string"
       /\ ~Falsy(store[k].name)
       /\ MatchIdxs(store, ByName(store[k].name)) = {k}
       /\ scen = Target(store[k]._id, store[k].name.s)

\* deleteUserById up to its await
deleteUserByIdCall ==
  /\ Len(inflight) < MaxRace
  /\ \E id \in {HexId(scen.id)} :
       inflight' = Append(inflight,
                     IF ~ObjectId_isValid(id)
                     THEN Flight("deleteUserById", id, Undefined,
                                 <<Json(400, "Invalid user ID", NoDoc)>>, <<>>, "done")
                     ELSE Flight("deleteUserById", id, Undefined, <<>>, <<>>, "await"))
  /\ UNCHANGED <<store, nextId, pending, out, scen>>

\* deleteUserById from its await on: findOneAndDelete and the response
deleteUserByIdReturn ==
  /\ \E k \in DOMAIN inflight :
       /\ inflight[k].h = "deleteUserById" /\ inflight[k].phase = "await"
       /\ \/ \E e \in Errors :
               /\ inflight' = [inflight EXCEPT ![k].nexts = <<e>>, ![k].phase = "done"]
               /\ UNCHANGED store
          \/ LET deleteResult == FindOneAndDelete(store, ById(NewObjectId(inflight[k].id)))
             IN /\ store' = deleteResult.store
                /\ inflight' = [inflight EXCEPT
                     ![k].res = IF deleteResult.value = NoDoc
                                THEN <<Json(404, "User not found", NoDoc)>>
                                ELSE <<Json(200, "User deleted successfully",
                                            deleteResult.value)>>,
                     ![k].phase = "done"]
  /\ UNCHANGED <<nextId, pending, out, scen>>

\* deleteUserByName up to its await
deleteUserByNameCall ==
  /\ Len(inflight) < MaxRace
  /\ \E name \in {Str(scen.n)} :
       inflight' = Append(inflight,
                     IF Falsy(name) \/ Typeof(name) # "string"
                     THEN Flight("deleteUserByName", NoId, name,
                                 <<Json(400, "Name query parameter is required", NoDoc)>>,
                                 <<>>, "done")
                     ELSE Flight("deleteUserByName", NoId, name, <<>>, <<>>, "await"))
  /\ UNCHANGED <<store, nextId, pending, out, scen>>

\* deleteUserByName from its await on: deleteOne and the response
deleteUserByNameReturn ==
  /\ \E k \in DOMAIN inflight :
       /\ inflight[k].h = "deleteUserByName" /\ inflight[k].phase = "await"
       /\ \/ \E e \in Errors :
               /\ inflight' = [inflight EXCEPT ![k].nexts = <<e>>, ![k].phase = "done"]
               /\ UNCHANGED store
          \/ LET result == DeleteOne(store, ByName(inflight[k].q))
             IN /\ store' = result.store
                /\ inflight' = [inflight EXCEPT
                     ![k].res = IF result.deletedCount = 0
                                THEN <<Json(404, "User not found", NoDoc)>>
                                ELSE <<Json(200, "User deleted successfully", NoDoc)>>,
                     ![k].phase = "done"]
  /\ UNCHANGED <<nextId, pending, out, scen>>

NextRace ==
  \/ deleteUserByIdCall
  \/ deleteUserByIdReturn
  \/ deleteUserByNameCall
  \/ deleteUserByNameReturn

SpecRace == InitRace /\ [][NextRace]_vars

Answered == {k \in DOMAIN inflight : inflight[k].phase = "done"}
Succeeded == {k \in Answered : Statuses(inflight[k]) = <<200>>}
Threw == {k \in Answered : inflight[k].nexts # <<>>}

\* C13: of the deleteUserByName(n) and deleteUserById(id) requests in flight
\* together and aimed at one document, exactly one answers 200 and every
\* other one 404 "User not found" (store calls that throw aside); the document
\* is removed once and no other document is removed.
C13_ConcurrentDeletes ==
  [][/\ \/ store' = store
        \/ /\ scen.id \in Ids(store)
           /\ store' = SelectSeq(store, LAMBDA d : d._id # scen.id)
           /\ Cardinality(Succeeded') = Cardinality(Succeeded) + 1
     /\ Cardinality(Succeeded') <= 1
     /\ Succeeded' # {} <=> scen.id \notin Ids(store')
     /\ \A k \in Answered' \ (Succeeded' \cup Threw') : inflight'[k].res = <<NotFound>>
     /\ (Answered' # {} /\ Threw' = {}) => Cardinality(Succeeded') = 1]_vars

C13_Witness ==
  /\ Len(inflight) = MaxRace
  /\ Answered = DOMAIN inflight
  /\ Threw = {}
  /\ \E j, k \in DOMAIN inflight :
       /\ inflight[j].h = "deleteUserById" /\ inflight[k].h = "deleteUserByName"
       /\ j < k /\ Statuses(inflight[k]) = <<200>>
  /\ store # <<>>

Answers(o, status) == \E i \in DOMAIN o.res : o.res[i].status = status

\* C14: getUserByName and getUserById never change the store; no handler step
\* of an invocation that answers 400 or 404 changes it (for updateUserById
\* that covers the existence check too); a handler that answers 400 has
\* issued no store call.
C14_Frame ==
  [][/\ out'.h \in {"getUserByName", "getUserById"} => store' = store
     /\ (Answers(out', 400) \/ Answers(out', 404)) => store' = store
     /\ (out'.h = "updateUserById" /\ out'.calls = <<"findOne">>) => store' = store
     /\ Answers(out', 400) => out'.calls = <<>> /\ Len(out'.res) = 1 /\ out'.nexts = <<>>]_vars

C14_Witness ==
  /\ out.h = "updateUserByName"
  /\ Answers(out, 404)
  /\ out.b # String(out.q)
  /\ store # <<>>
====
